---- MODULE Spec2Model ----
(***************************************************************************)
(* PPO with priority replay for job-shop scheduling (src/ppo_op.py).       *)
(*                                                                         *)
(* The model follows PPO.train() and PPO.update() statement by statement.  *)
(* The neural networks, the environment and the random generators are      *)
(* external: what they return (action, probability, reward, next state,    *)
(* done, makespan, advantage, shuffle order, drawn indices, elapsed time)  *)
(* is an input of the action that calls them.                              *)
(*                                                                         *)
(* Numbers.  Array positions are 1-based here (position k stands for the   *)
(* Python index k-1).  Advantages are integers in units of 1e-5 and        *)
(* priorities integers in units of 1e-3, so that |x| ** 0.6 is exact on    *)
(* fifth powers: (n^5 * 1e-5) ** 0.6 = n^3 * 1e-3.  Discounted returns     *)
(* are exact fixed-point numbers in units of 1/ReturnScale; the rounding   *)
(* of float arithmetic is not modelled.                                    *)
(***************************************************************************)
EXTENDS Integers, Sequences, FiniteSets, TLC

----------------------------------------------------------------------------
(* Sizes.  MaxEpochs and WindowLen stand for the literals 4000 and 30 of   *)
(* train(); memory_size and batch_size are constructor arguments; job_num  *)
(* and machine_num are attributes of the environment.                      *)

MaxEpochs == 3

WindowLen == 3

memory_size == 2

batch_size == 2

job_num == 3

machine_num == 1

UPDATE_STEPS == 10

convergence_episode == 2000

init_size == 1

GammaNum == 999

GammaDen == 1000

InitMinMakeSpan == 100000

\* self.capacity = self.memory_size * self.env.job_num * self.env.machine_num
capacity == memory_size * job_num * machine_num

\* The environment ends an episode after at most job_num * machine_num steps.
MaxEpisodeLen == job_num * machine_num

----------------------------------------------------------------------------
(* Helpers on sequences and numbers.                                       *)

RECURSIVE Pow(_, _)
Pow(b, e) == IF e = 0 THEN 1 ELSE b * Pow(b, e - 1)

ReturnScale == Pow(GammaDen, MaxEpisodeLen - 1)

RECURSIVE SumSeq(_)
SumSeq(s) == IF s = <<>> THEN 0 ELSE Head(s) + SumSeq(Tail(s))

RECURSIVE Reverse(_)
Reverse(s) == IF s = <<>> THEN <<>> ELSE Append(Reverse(Tail(s)), Head(s))

Range(s) == {s[k] : k \in 1..Len(s)}

\* Python's min() and max() of a non-empty list.
MinOf(s) == CHOOSE x \in Range(s) : \A y \in Range(s) : x <= y

MaxOf(s) == CHOOSE x \in Range(s) : \A y \in Range(s) : x >= y

MinInt(a, b) == IF a <= b THEN a ELSE b

Abs(x) == IF x < 0 THEN -x ELSE x

----------------------------------------------------------------------------
VARIABLES
    pc,               \* position in train() / update()
    i_epoch,          \* loop variable of `for i_epoch in range(4000)`
    m,                \* loop variable of `for m in range(self.memory_size)`
    index,            \* train(): index
    converged,        \* train(): converged
    converged_value,  \* train(): converged_value, the makespan window
    min_make_span,    \* train(): min_make_span
    state,            \* train(): state, the current observation
    current_time,     \* env.current_time
    buffer_s, buffer_a, buffer_r, buffer_p,   \* episode buffers
    bs, ba, br, bp,   \* epoch buffers
    priorities,       \* self.priorities
    train_steps,      \* self.train_steps
    i,                \* update(): loop variable of the passes
    sampler,          \* update(): indices the BatchSampler has not yielded yet
    prob1,            \* update(): prob1, as <<numerator, denominator>> pairs
    indices,          \* update(): indices drawn by np.random.choice
    result,           \* what train() returned: <<min(window), converged>>
    error,            \* the exception that left train(), if any
    exit,             \* why the epoch loop was left
    history,          \* observer: makespan of every collected episode
    rollout,          \* observer: every step of the current epoch
    sweep,            \* observer: mini-batches of the current pass and
                      \*   the priorities learn() returned for each
    stale,            \* observer: the priorities beyond the epoch buffer's
                      \*   length when update() was entered
    updates,          \* observer: calls of update() that returned
    sched             \* replay-size schedule under study (SpecSchedule)

trainVars == <<pc, i_epoch, m, index, converged, converged_value,
               min_make_span, state, current_time, result, error, exit,
               history>>

bufVars == <<buffer_s, buffer_a, buffer_r, buffer_p, bs, ba, br, bp, rollout>>

updVars == <<priorities, train_steps, i, sampler, prob1, indices, sweep,
             stale, updates>>

vars == <<trainVars, bufVars, updVars, sched>>

----------------------------------------------------------------------------
(* Pure functions of the program.                                          *)

\* train(), lines 193-198: v_s_ = r + gamma * v_s_ over buffer_r[::-1],
\* appended in that (reversed) order.
RECURSIVE Accumulate(_, _)
Accumulate(rev, v) ==
    IF rev = <<>> THEN <<>>
    ELSE LET v2 == Head(rev) * ReturnScale + GammaNum * (v \div GammaDen)
         IN  <<v2>> \o Accumulate(Tail(rev), v2)

\* Faulty variant: discounted_r.reverse() is forgotten.
DiscountedReturns_NoReverse(rewards) == Accumulate(Reverse(rewards), 0)

\* ... followed by discounted_r.reverse().
DiscountedReturns(rewards) == Reverse(Accumulate(Reverse(rewards), 0))

\* Faulty variant: pop() instead of pop(0), the newest entry is evicted.
PushWindow_PopNewest(w, x) ==
    LET w2 == Append(w, x)
    IN  IF Len(w2) >= WindowLen + 1 THEN SubSeq(w2, 1, Len(w2) - 1) ELSE w2

\* train(), lines 212-214: append, then pop(0) once the length reaches 31.
PushWindow(w, x) ==
    LET w2 == Append(w, x)
    IN  IF Len(w2) >= WindowLen + 1 THEN Tail(w2) ELSE w2

\* Faulty variant: the length test is off by one (> 30 instead of >= 30).
WindowConverged_Strict(w) == MinOf(w) = MaxOf(w) /\ Len(w) > WindowLen

\* train(), line 218.
WindowConverged(w) == MinOf(w) = MaxOf(w) /\ Len(w) >= WindowLen

\* x ** 0.6 on fifth powers (x in units of 1e-5, the result in units of 1e-3).
Pow06(x) == LET n == CHOOSE n \in 0..x : Pow(n, 5) = x IN Pow(n, 3)

\* learn(), lines 133-136, for one entry of the batch.
Priority(adv) == Pow06(Abs(IF adv < 0 THEN 1 ELSE adv))

\* learn(), lines 133-137: the priorities of a batch, in the batch's order.
learn(adv) == [j \in 1..Len(adv) |-> Priority(adv[j])]

\* Faulty variant: the clip to batch_size is dropped.
ReplayDraw_Unclipped(ts, b) ==
    init_size + ((b - init_size) * ts * ts)
                \div (convergence_episode * convergence_episode)

\* update(), lines 153-155: min(self.batch_size, int(replay_size)).
ReplayDraw(ts, b) ==
    MinInt(b, init_size
              + ((b - init_size) * ts * ts)
                \div (convergence_episode * convergence_episode))

\* BatchSampler(sampler, batch_size, drop_last=False): the next mini-batch.
NextBatch(remaining) == SubSeq(remaining, 1, MinInt(batch_size, Len(remaining)))

\* Faulty variant: the values are written in the reverse of the batch's order.
WriteBack_Reversed(prio, idx, values) ==
    [k \in 1..Len(prio) |->
        IF \E j \in 1..Len(idx) : idx[j] = k
        THEN values[Len(idx) + 1 - (CHOOSE j \in 1..Len(idx) : idx[j] = k)]
        ELSE prio[k]]

\* Faulty variant: the pass does not count.
StepCounter_Stuck(ts) == ts

\* update(), line 147: self.train_steps += 1
StepCounter(ts) == ts + 1

\* self.priorities[index] = values
WriteBack(prio, idx, values) ==
    [k \in 1..Len(prio) |->
        IF \E j \in 1..Len(idx) : idx[j] = k
        THEN values[CHOOSE j \in 1..Len(idx) : idx[j] = k
                       /\ \A j2 \in 1..Len(idx) : idx[j2] = k => j2 <= j]
        ELSE prio[k]]

\* prob1 = self.priorities / np.sum(self.priorities)
Normalise(prio) == [k \in 1..Len(prio) |-> <<prio[k], SumSeq(prio)>>]

----------------------------------------------------------------------------
Init ==
    /\ pc = "epoch_top"
    /\ i_epoch = 0
    /\ m = 0
    /\ index = 0
    /\ converged = 0
    /\ converged_value = <<>>
    /\ min_make_span = InitMinMakeSpan
    /\ state = 0
    /\ current_time = 0
    /\ buffer_s = <<>> /\ buffer_a = <<>> /\ buffer_r = <<>> /\ buffer_p = <<>>
    /\ bs = <<>> /\ ba = <<>> /\ br = <<>> /\ bp = <<>>
    /\ priorities = [k \in 1..capacity |-> 0]
    /\ train_steps = 0
    /\ i = 0
    /\ sampler = <<>>
    /\ prob1 = <<>>
    /\ indices = <<>>
    /\ result = <<>>
    /\ error = "none"
    /\ exit = "none"
    /\ history = <<>>
    /\ rollout = <<>>
    /\ sweep = <<>>
    /\ stale = <<>>
    /\ updates = 0
    /\ sched = [ts |-> 0, b |-> 1, size |-> 1, prev |-> 1]

----------------------------------------------------------------------------
(* train()                                                                 *)

\* `for i_epoch in range(4000)` has no value left.
LoopExhausted ==
    /\ pc = "epoch_top"
    /\ i_epoch = MaxEpochs
    /\ pc' = "finish"
    /\ exit' = "exhausted"
    /\ UNCHANGED <<i_epoch, m, index, converged, converged_value,
                   min_make_span, state, current_time, result, error,
                   history, bufVars, updVars, sched>>

\* Line 175: time.time() - t0 > 3600.  The elapsed wall-clock time is an
\* input: the test can succeed at the top of any epoch.
TimeBudgetExceeded ==
    /\ pc = "epoch_top"
    /\ i_epoch < MaxEpochs
    /\ pc' = "finish"
    /\ exit' = "timeout"
    /\ UNCHANGED <<i_epoch, m, index, converged, converged_value,
                   min_make_span, state, current_time, result, error,
                   history, bufVars, updVars, sched>>

\* Lines 177-178: a new epoch buffer.
BeginEpoch ==
    /\ pc = "epoch_top"
    /\ i_epoch < MaxEpochs
    /\ bs' = <<>> /\ ba' = <<>> /\ br' = <<>> /\ bp' = <<>>
    /\ rollout' = <<>>
    /\ m' = 0
    /\ pc' = "episode"
    /\ UNCHANGED <<i_epoch, index, converged, converged_value, min_make_span,
                   state, current_time, result, error, exit, history,
                   buffer_s, buffer_a, buffer_r, buffer_p, updVars, sched>>

\* Lines 179-181: env.reset() returns the observation s0.
BeginEpisode(s0) ==
    /\ pc = "episode"
    /\ m < memory_size
    /\ buffer_s' = <<>> /\ buffer_a' = <<>> /\ buffer_r' = <<>>
    /\ buffer_p' = <<>>
    /\ state' = s0
    /\ pc' = "step"
    /\ UNCHANGED <<i_epoch, m, index, converged, converged_value,
                   min_make_span, current_time, result, error, exit, history,
                   bs, ba, br, bp, rollout, updVars, sched>>

\* Lines 183-215: one turn of `while True`.  select_action returns (a, p);
\* env.step returns the observation ns, the reward r and done, and leaves
\* mk in env.current_time.
Step(a, p, r, ns, done, mk) ==
    /\ pc = "step"
    /\ done \/ Len(buffer_r) + 1 < MaxEpisodeLen
    /\ buffer_s' = Append(buffer_s, state)
    /\ buffer_a' = Append(buffer_a, a)
    /\ buffer_r' = Append(buffer_r, r)
    /\ buffer_p' = Append(buffer_p, p)
    /\ rollout' = Append(rollout,
                         [s |-> state, a |-> a, r |-> r, p |-> p, last |-> done])
    /\ state' = ns
    /\ current_time' = mk
    /\ IF done
       THEN /\ bs' = bs \o buffer_s'
            /\ ba' = ba \o buffer_a'
            /\ br' = br \o DiscountedReturns(buffer_r')
            /\ bp' = bp \o buffer_p'
            /\ index' = i_epoch * memory_size + m
            /\ min_make_span' = IF min_make_span > mk THEN mk ELSE min_make_span
            /\ converged_value' = PushWindow(converged_value, mk)
            /\ history' = Append(history, mk)
            /\ m' = m + 1
            /\ pc' = "episode"
       ELSE UNCHANGED <<bs, ba, br, bp, index, min_make_span, converged_value,
                        history, m, pc>>
    /\ UNCHANGED <<i_epoch, converged, result, error, exit, updVars, sched>>

\* Line 216: `for m` is over; self.update(bs, ba, br, bp) is entered.
CallUpdate ==
    /\ pc = "episode"
    /\ m = memory_size
    /\ i' = 0
    /\ sampler' = <<>>
    /\ prob1' = <<>>
    /\ indices' = <<>>
    /\ sweep' = <<>>
    /\ stale' = SubSeq(priorities, Len(ba) + 1, capacity)
    /\ pc' = "pass"
    /\ UNCHANGED <<i_epoch, m, index, converged, converged_value,
                   min_make_span, state, current_time, result, error, exit,
                   history, bufVars, priorities, train_steps, updates, sched>>

\* Lines 217-219.
CheckConverged ==
    /\ pc = "check"
    /\ converged' = index
    /\ IF WindowConverged(converged_value)
       THEN /\ pc' = "finish"
            /\ exit' = "converged"
            /\ UNCHANGED i_epoch
       ELSE /\ pc' = "epoch_top"
            /\ i_epoch' = i_epoch + 1
            /\ UNCHANGED exit
    /\ UNCHANGED <<m, index, converged_value, min_make_span, state,
                   current_time, result, error, history, bufVars, updVars,
                   sched>>

\* Line 224: min(converged_value) raises ValueError on an empty list.
\* Lines 220-224 (the report and save_params() write files only).
Return ==
    /\ pc = "finish"
    /\ IF converged_value = <<>>
       THEN /\ pc' = "raised"
            /\ error' = "ValueError: min() arg is an empty sequence"
            /\ UNCHANGED result
       ELSE /\ pc' = "returned"
            /\ result' = <<MinOf(converged_value), converged>>
            /\ UNCHANGED error
    /\ UNCHANGED <<i_epoch, m, index, converged, converged_value,
                   min_make_span, state, current_time, exit, history,
                   bufVars, updVars, sched>>

----------------------------------------------------------------------------
(* update()                                                                *)

\* Lines 146-149: a pass starts; SubsetRandomSampler shuffles range(len(ba))
\* into the order perm.  prob1 and indices are assigned again before they are
\* read, so what the previous pass left in them is dropped here.
BeginPass(perm) ==
    /\ pc = "pass"
    /\ i < UPDATE_STEPS
    /\ train_steps' = StepCounter(train_steps)
    /\ sampler' = [k \in 1..Len(ba) |-> perm[k]]
    /\ sweep' = <<>>
    /\ prob1' = <<>>
    /\ indices' = <<>>
    /\ pc' = "sweep"
    /\ UNCHANGED <<i_epoch, m, index, converged, converged_value,
                   min_make_span, state, current_time, result, error, exit,
                   history, bufVars, priorities, i, stale, updates, sched>>

\* Lines 149-150: the sampler yields the next mini-batch; learn() computes
\* the advantages adv of its entries and returns their priorities, which are
\* written to the mini-batch's positions.
SweepBatch(adv) ==
    /\ pc = "sweep"
    /\ sampler # <<>>
    /\ Len(adv) = Len(NextBatch(sampler))
    /\ priorities' = WriteBack(priorities, NextBatch(sampler), learn(adv))
    /\ sweep' = Append(sweep, [idx |-> NextBatch(sampler), prio |-> learn(adv)])
    /\ sampler' = SubSeq(sampler, Len(NextBatch(sampler)) + 1, Len(sampler))
    /\ UNCHANGED <<trainVars, bufVars, train_steps, i, prob1, indices, stale,
                   updates, sched>>

\* np.random.choice(n, size, p): the exception it raises, if any.
ChoiceError(n, p) ==
    IF Len(p) # n THEN "ValueError: 'a' and 'p' must have same size"
    ELSE IF \E k \in 1..Len(p) : p[k][2] = 0
         THEN "ValueError: probabilities contain NaN"
         ELSE "none"

\* The indices np.random.choice(n, size, p) can return.
ChoiceDraws(n, size, p) == [1..size -> {k \in 1..n : p[k][1] > 0}]

\* Lines 152-163: the sweep is over; the replay batch is drawn and learnt.
Replay(drawn) ==
    /\ pc = "sweep"
    /\ sampler = <<>>
    /\ prob1' = Normalise(priorities)
    /\ ChoiceError(Len(ba), prob1') = "none"
    /\ drawn \in ChoiceDraws(Len(ba), ReplayDraw(train_steps, batch_size), prob1')
    /\ indices' = drawn
    /\ i' = i + 1
    /\ pc' = "pass"
    /\ UNCHANGED <<i_epoch, m, index, converged, converged_value,
                   min_make_span, state, current_time, result, error, exit,
                   history, bufVars, priorities, train_steps, sampler, sweep,
                   stale, updates, sched>>

\* Line 155 raises: the exception leaves update() and train().
ReplayRaises ==
    /\ pc = "sweep"
    /\ sampler = <<>>
    /\ prob1' = Normalise(priorities)
    /\ ChoiceError(Len(ba), prob1') # "none"
    /\ error' = ChoiceError(Len(ba), prob1')
    /\ pc' = "raised"
    /\ UNCHANGED <<i_epoch, m, index, converged, converged_value,
                   min_make_span, state, current_time, result, exit, history,
                   bufVars, priorities, train_steps, i, sampler, indices,
                   sweep, stale, updates, sched>>

\* `for i in range(self.UPDATE_STEPS)` is over: update() returns.
UpdateReturns ==
    /\ pc = "pass"
    /\ i = UPDATE_STEPS
    /\ updates' = updates + 1
    /\ pc' = "check"
    /\ UNCHANGED <<i_epoch, m, index, converged, converged_value,
                   min_make_span, state, current_time, result, error, exit,
                   history, bufVars, priorities, train_steps, i, sampler,
                   prob1, indices, sweep, stale, sched>>

----------------------------------------------------------------------------
(* Inputs.                                                                 *)

Makespans == {1, 2}

\* Advantages, in units of 1e-5: a negative one, zero and a positive one.
Advantages == {-32, 0, 32}

\* The advantages of a mini-batch of n entries: all zero, all negative, or
\* positive and zero in turn.
AdvantageVectors(n) ==
    { [j \in 1..n |-> 0],
      [j \in 1..n |-> -32],
      [j \in 1..n |-> IF j % 2 = 1 THEN 32 ELSE 0] }

\* Makespans of the episodes of an epoch when only the first one varies.
FirstVaries(k) == IF k = 0 THEN Makespans ELSE {1}

Identity(n) == [k \in 1..n |-> k]

\* The shuffles explored: the identity and one rotation.
Shuffles(n) == { Identity(n), [k \in 1..n |-> (k % n) + 1] }

\* Steps of an episode as <<action, probability (percent), reward, next
\* observation>>.
PlainSteps == { <<0, 100, 1, 0>> }

RichSteps == { <<0, 100, 1, 0>>, <<1, 50, -2, 1>> }

----------------------------------------------------------------------------
(* Spec: the whole of train(), every makespan sequence and episode length; *)
(* the networks' outputs are kept to one value.                            *)

Next ==
    \/ LoopExhausted
    \/ TimeBudgetExceeded
    \/ BeginEpoch
    \/ BeginEpisode(0)
    \/ \E x \in PlainSteps, done \in BOOLEAN, mk \in Makespans :
          Step(x[1], x[2], x[3], x[4], done, IF done THEN mk ELSE 0)
    \/ CallUpdate
    \/ BeginPass(Identity(Len(ba)))
    \/ SweepBatch([j \in 1..Len(NextBatch(sampler)) |-> 32])
    \/ Replay([j \in 1..ReplayDraw(train_steps, batch_size) |-> 1])
    \/ ReplayRaises
    \/ UpdateReturns
    \/ CheckConverged
    \/ Return

Spec == Init /\ [][Next]_vars

----------------------------------------------------------------------------
(* SpecRollout: train() with varied actions, probabilities, rewards and    *)
(* observations, and few makespan sequences.                               *)

NextRollout ==
    \/ LoopExhausted
    \/ TimeBudgetExceeded
    \/ BeginEpoch
    \/ BeginEpisode(1)
    \/ \E x \in RichSteps, done \in BOOLEAN, mk \in FirstVaries(m) :
          Step(x[1], x[2], x[3], x[4], done, IF done THEN mk ELSE 0)
    \/ CallUpdate
    \/ BeginPass(Identity(Len(ba)))
    \/ SweepBatch([j \in 1..Len(NextBatch(sampler)) |-> 32])
    \/ Replay([j \in 1..ReplayDraw(train_steps, batch_size) |-> 1])
    \/ ReplayRaises
    \/ UpdateReturns
    \/ CheckConverged
    \/ Return

SpecRollout == Init /\ [][NextRollout]_vars

----------------------------------------------------------------------------
(* SpecUpdate: train() with varied advantages, shuffles and replay draws,  *)
(* and few makespan sequences.                                             *)

NextUpdate ==
    \/ LoopExhausted
    \/ TimeBudgetExceeded
    \/ BeginEpoch
    \/ BeginEpisode(0)
    \/ \E x \in PlainSteps, done \in BOOLEAN, mk \in FirstVaries(m) :
          Step(x[1], x[2], x[3], x[4], done, IF done THEN mk ELSE 0)
    \/ CallUpdate
    \/ \E perm \in Shuffles(Len(ba)) : BeginPass(perm)
    \/ \E adv \in AdvantageVectors(Len(NextBatch(sampler))) : SweepBatch(adv)
    \/ \E drawn \in [1..ReplayDraw(train_steps, batch_size) -> {1, Len(ba)}] :
          Replay(drawn)
    \/ ReplayRaises
    \/ UpdateReturns
    \/ CheckConverged
    \/ Return

SpecUpdate == Init /\ [][NextUpdate]_vars

----------------------------------------------------------------------------
(* SpecSchedule: the replay-size schedule of update() as a function of     *)
(* train_steps, for every batch size up to MaxBatch.                       *)

MaxBatch == 6

MaxSchedSteps == 2200

InitSchedule ==
    /\ pc = "schedule"
    /\ i_epoch = 0 /\ m = 0 /\ index = 0 /\ converged = 0
    /\ converged_value = <<>>
    /\ min_make_span = InitMinMakeSpan
    /\ state = 0 /\ current_time = 0
    /\ buffer_s = <<>> /\ buffer_a = <<>> /\ buffer_r = <<>> /\ buffer_p = <<>>
    /\ bs = <<>> /\ ba = <<>> /\ br = <<>> /\ bp = <<>>
    /\ priorities = [k \in 1..capacity |-> 0]
    /\ train_steps = 0
    /\ i = 0 /\ sampler = <<>> /\ prob1 = <<>> /\ indices = <<>>
    /\ result = <<>> /\ error = "none" /\ exit = "none"
    /\ history = <<>> /\ rollout = <<>> /\ sweep = <<>>
    /\ stale = <<>>
    /\ updates = 0
    /\ \E b \in 1..MaxBatch :
          sched = [ts |-> 0, b |-> b, size |-> ReplayDraw(0, b),
                   prev |-> ReplayDraw(0, b)]

\* One more pass: train_steps grows by one and the replay size is computed.
ScheduleTick ==
    /\ pc = "schedule"
    /\ sched.ts < MaxSchedSteps
    /\ sched' = [ts |-> sched.ts + 1, b |-> sched.b,
                 size |-> ReplayDraw(sched.ts + 1, sched.b),
                 prev |-> sched.size]
    /\ UNCHANGED <<trainVars, bufVars, updVars>>

SpecSchedule == InitSchedule /\ [][ScheduleTick]_vars

----------------------------------------------------------------------------
(* Properties.                                                             *)

InUpdate == pc \in {"pass", "sweep", "check"} \/ (pc = "raised" /\ prob1 # <<>>)

SweepDone ==
    \/ pc = "sweep" /\ sampler = <<>>
    \/ pc = "pass" /\ i > 0
    \/ pc = "check"
    \/ pc = "raised" /\ prob1 # <<>>

\* Some WindowLen consecutive episodes of h have the same makespan.
HasRun(h) ==
    \E k \in 1..(Len(h) - WindowLen + 1) :
        \A j \in k..(k + WindowLen - 1) : h[j] = h[k]

\* The WindowLen most recent episodes of h have the same makespan.
LastSame(h) ==
    /\ Len(h) >= WindowLen
    /\ \A j \in (Len(h) - WindowLen + 1)..Len(h) : h[j] = h[Len(h)]

\* C1: every priority written back in the full sweep is strictly positive,
\* whatever the advantage (zero and negative included).
C1_WrittenPrioritiesPositive ==
    InUpdate =>
        \A j \in 1..Len(sweep) : \A q \in 1..Len(sweep[j].idx) :
            priorities[sweep[j].idx[q]] > 0

\* C2 as claimed: once some WindowLen consecutive episodes had the same
\* makespan, train() does not run the epoch loop to its bound.
C2_AnyRunHalts ==
    (pc \in {"finish", "returned"} /\ HasRun(history)) => exit # "exhausted"

\* C2 as amended: the loop is left by the convergence break exactly when, at
\* the check after an epoch's update(), the WindowLen most recent episodes
\* have the same makespan.
C2_HaltsAtEpochEnd ==
    /\ exit = "converged" => LastSame(history)
    /\ (pc = "epoch_top" /\ i_epoch > 0) => ~LastSame(history)
    /\ exit \in {"exhausted", "timeout"} => ~LastSame(history)

C2_Witness ==
    /\ pc = "returned"
    /\ exit = "converged"
    /\ Len(history) > WindowLen
    /\ history[1] # history[Len(history)]

\* C3: the replay step normalises the priorities of the epoch buffer's own
\* positions by their own sum, draws positions of the buffer only, and does
\* not fail, for every buffer length up to the capacity.
C3_SamplesCurrentBuffer ==
    (InUpdate /\ prob1 # <<>>) =>
        /\ error = "none"
        /\ Len(prob1) = Len(ba)
        /\ \A k \in 1..Len(prob1) :
              prob1[k] = <<priorities[k], SumSeq(SubSeq(priorities, 1, Len(ba)))>>
        /\ \A j \in 1..Len(indices) : indices[j] \in 1..Len(ba)

\* C4: train() returns the minimum makespan of the whole run and the index
\* of the last recorded episode.
C4_SummaryIsRunMinimum ==
    pc = "returned" => result = <<MinOf(history), Len(history) - 1>>

\* C5: train() never ends by an exception.
C5_NeverRaises == pc # "raised"

\* C6: the replay size is non-decreasing in train_steps, is init_size at 0,
\* never exceeds batch_size and is at least batch_size - 1 from
\* convergence_episode on.
C6_ReplaySchedule ==
    /\ sched.prev <= sched.size
    /\ sched.size <= sched.b
    /\ sched.ts = 0 => sched.size = init_size
    /\ sched.ts >= convergence_episode => sched.size >= sched.b - 1

C6_Witness ==
    /\ sched.ts > convergence_episode
    /\ sched.b > 2
    /\ sched.size = sched.b
    /\ sched.prev = sched.b
    /\ init_size + ((sched.b - init_size) * sched.ts * sched.ts)
                   \div (convergence_episode * convergence_episode) > sched.b

\* C7: once an episode is recorded the window holds the makespans of the
\* min(WindowLen, n) most recent of the n episodes, in collection order.
C7_WindowIsRecentEpisodes ==
    history # <<>> =>
        /\ Len(converged_value) = MinInt(WindowLen, Len(history))
        /\ converged_value =
              SubSeq(history, Len(history) - Len(converged_value) + 1,
                     Len(history))

C7_Witness ==
    /\ Len(history) >= WindowLen + 2
    /\ Len(converged_value) = WindowLen
    /\ history[1] # history[Len(history) - WindowLen + 1]

\* C8: the four epoch buffers have one length; position k holds the state,
\* action and probability of the k-th collected step and its discounted
\* return: the reward at an episode's last step, else reward + gamma * the
\* next position's return.
C8_ReturnsAligned ==
    /\ Len(bs) = Len(ba) /\ Len(ba) = Len(br) /\ Len(br) = Len(bp)
    /\ Len(bs) + (IF pc = "step" THEN Len(buffer_s) ELSE 0) = Len(rollout)
    /\ \A k \in 1..Len(bs) :
          /\ bs[k] = rollout[k].s
          /\ ba[k] = rollout[k].a
          /\ bp[k] = rollout[k].p
          /\ IF rollout[k].last
             THEN br[k] = rollout[k].r * ReturnScale
             ELSE /\ k < Len(bs)
                  /\ br[k + 1] % GammaDen = 0
                  /\ br[k] = rollout[k].r * ReturnScale
                             + GammaNum * (br[k + 1] \div GammaDen)

C8_Witness ==
    /\ pc = "pass"
    /\ Len(bs) = capacity
    /\ ~rollout[1].last /\ ~rollout[2].last /\ rollout[3].last
    /\ rollout[1].r # rollout[2].r
    /\ ~rollout[4].last
    /\ rollout[4].a # rollout[5].a
    /\ rollout[4].s # rollout[5].s

\* C9: the mini-batches of a pass are disjoint, hold at most batch_size
\* positions of the buffer each and cover the buffer once the sweep is over;
\* each position holds the priority learn() returned for it, and the
\* priorities beyond the buffer's length are those of update()'s entry.
C9_FullSweep ==
    InUpdate =>
        /\ \A j \in 1..Len(sweep) :
              /\ Len(sweep[j].idx) \in 1..batch_size
              /\ \A q \in 1..Len(sweep[j].idx) :
                    /\ sweep[j].idx[q] \in 1..Len(ba)
                    /\ priorities[sweep[j].idx[q]] = sweep[j].prio[q]
        /\ \A j1, j2 \in 1..Len(sweep) :
              \A q1 \in 1..Len(sweep[j1].idx), q2 \in 1..Len(sweep[j2].idx) :
                  sweep[j1].idx[q1] = sweep[j2].idx[q2] => (j1 = j2 /\ q1 = q2)
        /\ SweepDone =>
              \A k \in 1..Len(ba) :
                  \E j \in 1..Len(sweep) : \E q \in 1..Len(sweep[j].idx) :
                      sweep[j].idx[q] = k
        /\ \A k \in (Len(ba) + 1)..capacity : priorities[k] = stale[k - Len(ba)]

C9_Witness ==
    /\ pc = "sweep"
    /\ sampler = <<>>
    /\ Len(ba) < capacity
    /\ Len(sweep) >= 2
    /\ Len(sweep[Len(sweep)].idx) < batch_size
    /\ priorities[capacity] > 0
    /\ priorities[1] = 0

\* C10: train_steps counts the passes of the whole run: UPDATE_STEPS for
\* every call of update() that returned plus the passes of the call under
\* way; update() is called once per epoch, after memory_size episodes.
C10_StepsCountPasses ==
    /\ train_steps = UPDATE_STEPS * updates
                     + (IF pc = "pass" THEN i
                        ELSE IF pc = "sweep" \/ (pc = "raised" /\ prob1 # <<>>)
                             THEN i + 1 ELSE 0)
    /\ pc \in {"episode", "step", "pass", "sweep"} => updates = i_epoch
    /\ pc = "check" => updates = i_epoch + 1
    /\ pc \in {"pass", "sweep", "check"} =>
          Len(history) = memory_size * (i_epoch + 1)

C10_Witness ==
    /\ pc = "check"
    /\ updates = 2
    /\ train_steps = 2 * UPDATE_STEPS

====
